---- MODULE Spec2Model ----
(***************************************************************************)
(* A model of the marketing CRM service (marketing_service/services.py     *)
(* over the tables of models.py, behind the routes of routes.py):          *)
(* customers, segments with a criteria expression, campaigns with their    *)
(* one CampaignResult, the launch simulation, the Redis event bus, the     *)
(* session login and concurrent requests.                                  *)
(*                                                                         *)
(* Conventions                                                             *)
(*  - a table is a sequence; a row's primary key is its index (rows are    *)
(*    never deleted by any service function);                              *)
(*  - None for a DateTime column is NoDate (0); clock readings start at 1; *)
(*  - money is kept in cents (cost_per_send 0.01 is 1 cent);               *)
(*  - a random.uniform(a, b) draw is a rate in permille, so                *)
(*    int(n * u) is (n * r) \div 1000 and ceil(n * u) is CeilDiv(n*r,1000);*)
(*  - a Text column holding JSON is a record that remembers whether it was *)
(*    written by json.dumps (enc = "json") or stored as the caller's raw   *)
(*    string (enc = "raw"); json.loads fails on the raw strings used here; *)
(*  - users is the set of usernames of the User table, segment_customers   *)
(*    the set of <<segment_id, customer_id>> rows of the association table;*)
(*  - session is the session cookie of the one client: the username whose  *)
(*    user_id it carries, or NoUser when it carries none;                  *)
(*  - procs is the requests in flight, one per worker: where each is in    *)
(*    its service function and the rows its database session has loaded.   *)
(***************************************************************************)
EXTENDS Integers, Sequences, FiniteSets, TLC

VARIABLES customers, segments, campaigns, results, bus, now, last,
          users, segment_customers, session, procs

vars == <<customers, segments, campaigns, results, bus, now, last,
          users, segment_customers, session, procs>>

(***************************************************************************)
(* Bounds of the model.                                                    *)
(***************************************************************************)
MaxCustomers == 2
MaxSegments == 1
MaxCampaigns == 1
MaxTime == 3

(***************************************************************************)
(* Program constants.                                                      *)
(***************************************************************************)
FallbackMin == 100
FallbackMax == 500
DefaultCostPerSend == 1
NoDate == 0
\* 'user_id' not in session
NoUser == ""

\* The workers serving requests, and a worker with no request in flight.
Workers == {1, 2}
NoRequests ==
    [p \in Workers |->
        [pc |-> "idle", op |-> "", id |-> 0, campaign |-> <<>>, result |-> <<>>,
         written |-> <<>>, sims |-> 0, ret |-> ""]]

Statuses == {"draft", "active", "paused", "completed"}
CampaignTypes == {"email", "social", "ads"}
CustomerStatuses == {"lead", "customer"}

(***************************************************************************)
(* Values a rule compares: Python None, a string, a number, or a whole     *)
(* bag (dict).                                                             *)
(***************************************************************************)
None == [t |-> "none", s |-> "", n |-> 0]
Str(x) == [t |-> "str", s |-> x, n |-> 0]
Num(x) == [t |-> "num", s |-> "", n |-> x]
BagValue == [t |-> "bag", s |-> "", n |-> 0]

EmptyBag == [k \in {} |-> None]

(***************************************************************************)
(* Criteria objects and their stored text.                                 *)
(***************************************************************************)
EmptyCriteria == [rules |-> <<>>, match |-> "all"]
LeadCriteria ==
    [rules |-> <<[field |-> <<"status">>, operator |-> "eq", value |-> Str("lead")]>>,
     match |-> "all"]

\* json.dumps(obj)
JsonDumps(obj) == [enc |-> "json", obj |-> obj, raw |-> ""]
\* a str stored as it came
RawText(s) == [enc |-> "raw", obj |-> EmptyCriteria, raw |-> s]

\* json.loads(text): the object, or ValueError (ok = FALSE)
JsonLoads(text) ==
    IF text.enc = "json" THEN [ok |-> TRUE, val |-> text.obj]
    ELSE [ok |-> FALSE, val |-> EmptyCriteria]

\* Python truth of a str column: the empty string is falsy
Truthy(text) == ~(text.enc = "raw" /\ text.raw = "")

\* Segment.get_criteria: json.loads(self.criteria) if self.criteria else {}
get_criteria(segment) ==
    IF Truthy(segment.criteria) THEN JsonLoads(segment.criteria)
    ELSE [ok |-> TRUE, val |-> EmptyCriteria]

\* The criteria argument of create_segment / update_segment: a dict or a str.
DictArg(obj) == [isdict |-> TRUE, obj |-> obj, s |-> ""]
StrArg(s) == [isdict |-> FALSE, obj |-> EmptyCriteria, s |-> s]
CriteriaInputs ==
    {DictArg(EmptyCriteria), DictArg(LeadCriteria), StrArg(""), StrArg("not json")}

\* create_segment lines 163-166 / update_segment line 195
StoreCriteria(arg) ==
    IF arg.isdict THEN JsonDumps(arg.obj) ELSE RawText(arg.s)

(***************************************************************************)
(* Segment criteria evaluator.                                             *)
(***************************************************************************)
\* Further values a rule can meet: an int beyond the float range (json.loads
\* gives Python ints of any size) and a list.
Big == [t |-> "big", s |-> "", n |-> 0]
ListVal(items) == [t |-> "list", s |-> "", n |-> 0, items |-> items]

\* A result of the evaluator: a bool, or an exception leaving the function.
Returns(b) == [ok |-> TRUE, val |-> b]
Raises == [ok |-> FALSE, val |-> FALSE]

\* a nullable JSON bag column read by get_demographics / get_behavioral_data
BagOf(customer, column) ==
    IF column \in DOMAIN customer THEN customer[column] ELSE EmptyBag

\* get_nested_value: field_path is the list of parts of field_path.split('.')
get_nested_value(customer, parts) ==
    IF parts[1] \in {"demographics", "behavioral_data"}
    THEN IF Len(parts) > 1
         THEN IF parts[2] \in DOMAIN BagOf(customer, parts[1])
              THEN BagOf(customer, parts[1])[parts[2]] ELSE None
         ELSE BagValue
    ELSE IF parts[1] = "purchase_history" THEN ListVal(<<>>)
    ELSE IF parts[1] = "status" THEN Str(customer.status)
    ELSE IF parts[1] \in DOMAIN customer THEN customer[parts[1]]
    ELSE None

\* float(v) succeeds
Floatable(v) == v.t = "num"
\* float(v) raises OverflowError, which is neither ValueError nor TypeError
Overflows(v) == v.t = "big"

\* The characters of the strings the model uses, and str.lower().
Spell(x) ==
    CASE x = "lead" -> <<"l", "e", "a", "d">>
      [] x = "Lead" -> <<"L", "e", "a", "d">>
      [] x = "ea" -> <<"e", "a">>
      [] x = "customer" -> <<"c", "u", "s", "t", "o", "m", "e", "r">>
      [] OTHER -> <<"?">>
Lower(cs) == [k \in DOMAIN cs |-> IF cs[k] = "L" THEN "l" ELSE cs[k]]
\* needle in haystack, for two str
IsSubstring(needle, hay) ==
    \E k \in 0..(Len(hay) - Len(needle)) :
        \A j \in 1..Len(needle) : hay[k + j] = needle[j]
\* str(v) for the values the model uses
StrOf(v) ==
    CASE v.t = "str" -> Spell(v.s)
      [] v.t = "none" -> <<"N", "o", "n", "e">>
      [] OTHER -> <<"#">>

\* evaluate_rule lines 261-281: the try block
Compare(actual_value, operator, expected_value) ==
    CASE operator = "eq" -> Returns(actual_value = expected_value)
      [] operator = "neq" -> Returns(actual_value # expected_value)
      [] operator \in {"gt", "gte", "lt", "lte"} ->
           IF Overflows(actual_value) THEN Raises
           ELSE IF ~Floatable(actual_value) THEN Returns(FALSE)
           ELSE IF Overflows(expected_value) THEN Raises
           ELSE IF ~Floatable(expected_value) THEN Returns(FALSE)
           ELSE Returns(CASE operator = "gt" -> actual_value.n > expected_value.n
                          [] operator = "gte" -> actual_value.n >= expected_value.n
                          [] operator = "lt" -> actual_value.n < expected_value.n
                          [] OTHER -> actual_value.n =< expected_value.n)
      [] operator = "contains" ->
           Returns(IsSubstring(Lower(StrOf(expected_value)),
                               Lower(StrOf(actual_value))))
      [] operator = "in" ->
           Returns(CASE expected_value.t = "list" ->
                          \E k \in DOMAIN expected_value.items :
                              expected_value.items[k] = actual_value
                     [] expected_value.t = "str" ->
                          /\ actual_value.t = "str"
                          /\ IsSubstring(Spell(actual_value.s),
                                         Spell(expected_value.s))
                     [] OTHER -> FALSE)
      [] OTHER -> Returns(FALSE)

\* Faulty variant of evaluate_rule: no test for a missing value.
evaluate_rule_unguarded(actual_value, operator, expected_value) ==
    Compare(actual_value, operator, expected_value)

evaluate_rule(actual_value, operator, expected_value) ==
    IF actual_value = None THEN Returns(FALSE)
    ELSE Compare(actual_value, operator, expected_value)

\* the result of rule i of a rule list for a customer (lines 222-232)
RuleResult(customer, rules, i) ==
    evaluate_rule(get_nested_value(customer, rules[i].field),
                  rules[i].operator, rules[i].value)

\* Faulty variant of evaluate_segment_criteria: any() of no results is False.
evaluate_segment_criteria_strict(customer, criteria) ==
    LET rules == criteria.rules
    IN  IF \E i \in DOMAIN rules : ~RuleResult(customer, rules, i).ok THEN Raises
        ELSE IF criteria.match = "all"
             THEN Returns(\A i \in DOMAIN rules : RuleResult(customer, rules, i).val)
             ELSE Returns(\E i \in DOMAIN rules : RuleResult(customer, rules, i).val)

\* criteria is a parsed object, or a stored text (the isinstance(criteria, str)
\* branch, lines 209-213: a text that does not parse includes every customer).
\* Every rule is evaluated before the results are combined, so an exception in
\* any rule leaves the function.
evaluate_segment_criteria(customer, criteria) ==
    LET parsed == IF "enc" \in DOMAIN criteria THEN JsonLoads(criteria)
                  ELSE [ok |-> TRUE, val |-> criteria]
        rules == parsed.val.rules
    IN  IF ~parsed.ok THEN Returns(TRUE)
        ELSE IF rules = <<>> THEN Returns(TRUE)
        ELSE IF \E i \in DOMAIN rules : ~RuleResult(customer, rules, i).ok
             THEN Raises
        ELSE IF parsed.val.match = "all"
             THEN Returns(\A i \in DOMAIN rules : RuleResult(customer, rules, i).val)
             ELSE Returns(\E i \in DOMAIN rules : RuleResult(customer, rules, i).val)

\* get_segment_customers: [] for an unknown segment; raises when the stored
\* criteria text does not parse (get_criteria has no handler) or a rule
\* raises; else the ids of the matching customers.
get_segment_customers(segs, custs, segment_id) ==
    IF segment_id \notin DOMAIN segs
    THEN [ok |-> TRUE, ids |-> {}]
    ELSE LET c == get_criteria(segs[segment_id])
         IN  IF ~c.ok THEN [ok |-> FALSE, ids |-> {}]
             ELSE IF \E i \in DOMAIN custs :
                        ~evaluate_segment_criteria(custs[i], c.val).ok
             THEN [ok |-> FALSE, ids |-> {}]
             ELSE [ok |-> TRUE,
                   ids |-> {i \in DOMAIN custs :
                              evaluate_segment_criteria(custs[i], c.val).val}]

\* refresh_segment on tables segs/custs: the tables after it and what it returns
\* ("none" for an unknown id, "raise" when get_segment_customers raises).
Refreshed(segs, custs, segment_id) ==
    IF segment_id \notin DOMAIN segs
    THEN [segs |-> segs, ret |-> "none"]
    ELSE LET m == get_segment_customers(segs, custs, segment_id)
         IN  IF ~m.ok THEN [segs |-> segs, ret |-> "raise"]
             ELSE [segs |-> [segs EXCEPT ![segment_id].customer_count =
                                               Cardinality(m.ids)],
                   ret |-> "segment"]

(***************************************************************************)
(* Campaign rows and the launch simulation.                                *)
(***************************************************************************)
\* Faulty variant of NewCampaign: a campaign given a schedule_time starts in
\* the "scheduled" status that the comment of the status column mentions.
NewCampaignScheduled(segment_id, campaign_type, schedule_time, budget) ==
    [status |-> IF schedule_time # NoDate THEN "scheduled" ELSE "draft",
     campaign_type |-> campaign_type,
     segment_id |-> segment_id, schedule_time |-> schedule_time,
     start_date |-> NoDate, end_date |-> NoDate,
     budget |-> budget, cost_per_send |-> DefaultCostPerSend]

\* Campaign(...) with the column defaults of models.py
NewCampaign(segment_id, campaign_type, schedule_time, budget) ==
    [status |-> "draft", campaign_type |-> campaign_type,
     segment_id |-> segment_id, schedule_time |-> schedule_time,
     start_date |-> NoDate, end_date |-> NoDate,
     budget |-> budget, cost_per_send |-> DefaultCostPerSend]

\* CampaignResult(campaign=campaign) with the column defaults of models.py
NewResult(campaign_id) ==
    [campaign_id |-> campaign_id, total_sent |-> 0, delivered |-> 0,
     bounced |-> 0, opens |-> 0, clicks |-> 0, unsubscribes |-> 0,
     impressions |-> 0, conversions |-> 0, leads_generated |-> 0,
     leads_converted |-> 0, revenue_attributed |-> 0, total_cost |-> 0]

\* campaign.results (uselist=False): the rows whose campaign_id is the campaign's
ResultsOf(rs, campaign_id) == {i \in DOMAIN rs : rs[i].campaign_id = campaign_id}

\* Faulty variant of CeilDiv: the quotient is truncated, as int() does.
TruncDiv(a, b) == a \div b

\* math.ceil(a / b)
CeilDiv(a, b) == (a + b - 1) \div b

\* One launch's random draws, rates in permille, aov in cents.
LowDraw ==
    [delivery |-> 920, e_open |-> 150, e_click |-> 100,
     s_mult |-> 2, s_open |-> 20, s_click |-> 200,
     a_mult |-> 5, a_click |-> 10,
     conv |-> 50, coin |-> FALSE, leads |-> 100, lead_conv |-> 200,
     aov |-> 5000]
\* Faulty variant of HighDraw: the click-through rate of ads reaches 10%.
HighDrawOverclicked ==
    [delivery |-> 980, e_open |-> 350, e_click |-> 250,
     s_mult |-> 5, s_open |-> 80, s_click |-> 400,
     a_mult |-> 15, a_click |-> 100,
     conv |-> 200, coin |-> TRUE, leads |-> 300, lead_conv |-> 400,
     aov |-> 20000]
HighDraw ==
    [delivery |-> 980, e_open |-> 350, e_click |-> 250,
     s_mult |-> 5, s_open |-> 80, s_click |-> 400,
     a_mult |-> 15, a_click |-> 50,
     conv |-> 200, coin |-> TRUE, leads |-> 300, lead_conv |-> 400,
     aov |-> 20000]
Draws == {[d EXCEPT !.coin = c] : d \in {LowDraw, HighDraw}, c \in BOOLEAN}

\* random.randint(100, 500), sampled at its two ends
FallbackSizes == {FallbackMin, FallbackMax}

\* launch_campaign lines 425-458: the result row after the simulation
Simulate(campaign, r, audience_size, d) ==
    LET delivered == (audience_size * d.delivery) \div 1000
        impressions ==
            IF campaign.campaign_type = "email" THEN r.impressions
            ELSE IF campaign.campaign_type = "social"
                 THEN audience_size * d.s_mult
                 ELSE audience_size * d.a_mult
        opens0 ==
            IF campaign.campaign_type = "email"
            THEN (delivered * d.e_open) \div 1000
            ELSE (impressions * d.s_open) \div 1000
        clicks ==
            IF campaign.campaign_type = "email"
            THEN (opens0 * d.e_click) \div 1000
            ELSE IF campaign.campaign_type = "social"
                 THEN (opens0 * d.s_click) \div 1000
                 ELSE (impressions * d.a_click) \div 1000
        opens ==
            IF campaign.campaign_type \in {"email", "social"} THEN opens0
            ELSE clicks
        conversions ==
            IF clicks * d.conv < 1000 /\ clicks > 0 /\ d.coin THEN 1
            ELSE CeilDiv(clicks * d.conv, 1000)
        leads_generated == CeilDiv(clicks * d.leads, 1000)
    IN  [r EXCEPT
            !.total_sent = audience_size,
            !.delivered = delivered,
            !.bounced = audience_size - delivered,
            !.impressions = impressions,
            !.opens = opens,
            !.clicks = clicks,
            !.conversions = conversions,
            !.leads_generated = leads_generated,
            !.leads_converted = CeilDiv(leads_generated * d.lead_conv, 1000),
            !.revenue_attributed = conversions * d.aov,
            !.total_cost = audience_size * campaign.cost_per_send
                           + campaign.budget \div 2]

(***************************************************************************)
(* Lifecycle guards and writes.                                            *)
(***************************************************************************)
\* Faulty variant of PauseAllowed: a draft can be paused too.
PauseAllowedDraft(campaign) == campaign.status \in {"active", "draft"}
\* Faulty variant of Resumed: resuming restarts the campaign's start_date.
ResumedRestarted(campaign) ==
    [campaign EXCEPT !.status = "active", !.start_date = NoDate]
\* Faulty variant of Completed: only a started campaign is completed.
CompletedIfStarted(campaign, t) ==
    IF campaign.start_date = NoDate THEN campaign
    ELSE [campaign EXCEPT !.status = "completed", !.end_date = t]

\* Faulty variant of LaunchAllowed: any campaign that is not running launches.
LaunchAllowedStopped(campaign) == campaign.status \notin {"active", "paused"}
\* Faulty variant of Launched: the launch does not record start_date.
LaunchedUndated(campaign, t) == [campaign EXCEPT !.status = "active"]

\* launch_campaign line 412
LaunchAllowed(campaign) == campaign.status = "draft"
\* pause_campaign line 467
PauseAllowed(campaign) == campaign.status = "active"
\* resume_campaign line 355
ResumeAllowed(campaign) == campaign.status = "paused"
\* launch_campaign lines 420-421
Launched(campaign, t) == [campaign EXCEPT !.status = "active", !.start_date = t]
\* pause_campaign line 468
Paused(campaign) == [campaign EXCEPT !.status = "paused"]
\* resume_campaign line 356
Resumed(campaign) == [campaign EXCEPT !.status = "active"]
\* complete_campaign lines 477-478
Completed(campaign, t) == [campaign EXCEPT !.status = "completed", !.end_date = t]

(***************************************************************************)
(* The event bus.  bus is "uninit" before the first get_instance, then     *)
(* "client" (redis.from_url gave a client) or "no_client" (it raised and   *)
(* _redis_client stays None for the life of the process).                  *)
(***************************************************************************)
\* EventBus.get_instance: the states the singleton can be in afterwards
get_instance(b) == IF b = "uninit" THEN {"client", "no_client"} ELSE {b}

\* EventBus.publish: what can become of the one message
\* ("dropped": no client; "sent"; "failed": redis publish raised, caught)
publish(b) == IF b = "no_client" THEN {"dropped"} ELSE {"sent", "failed"}

\* the payload of CampaignCreated (campaign.id is assigned by the commit)
CreatedEvent(campaign_id, campaign) ==
    [event |-> "CampaignCreated", campaign_id |-> campaign_id,
     type |-> campaign.campaign_type, status |-> ""]

\* Faulty variant of UpdatedEvent: the payload is built from the stored row
\* before the write, as a publish placed ahead of the commit would do.
UpdatedEventBeforeCommit(campaign_id, campaign) ==
    [event |-> "CampaignUpdated", campaign_id |-> campaign_id,
     type |-> "", status |-> campaigns[campaign_id].status]

\* the payload of CampaignUpdated
UpdatedEvent(campaign_id, campaign) ==
    [event |-> "CampaignUpdated", campaign_id |-> campaign_id,
     type |-> "", status |-> campaign.status]

\* The calls of EventBus.publish one service call makes for event ev, with the
\* outcome of each: one call, whatever becomes of it.
Published(b, ev) == {<<[data |-> ev, outcome |-> o]>> : o \in publish(b)}

\* Faulty variant of AfterPublish: the exception of a failed publish reaches
\* the caller.
AfterPublishRaises(trace) ==
    IF \E k \in DOMAIN trace : trace[k].outcome = "failed" THEN "raise"
    ELSE "campaign"

\* What the service function returns after its publish call: the exception of a
\* failed publish is caught inside publish, so always the campaign.
AfterPublish(trace) == "campaign"

\* The record of the most recent service call: the function, its id argument
\* (or the id it assigned), what it returned ("raise": an exception left it),
\* the size of a returned list, and its calls of EventBus.publish in order.
Call(op, id, ret, n, published) ==
    [op |-> op, id |-> id, ret |-> ret, n |-> n, published |-> published]

(***************************************************************************)
(* Inputs of the service calls.                                            *)
(***************************************************************************)
CustomerIds == 1..(MaxCustomers + 1)
\* An email address local{n}@example.com.
Email(local, n) == [local |-> local, n |-> n]
\* the email of the customers the campaign and segment slices create
FirstEmail == Email("a", 0)
EmailInputs == {FirstEmail, Email("b", 0)}
SegmentIds == 1..(MaxSegments + 1)
CampaignIds == 1..(MaxCampaigns + 1)
ScheduleInputs == {NoDate, MaxTime + 1}
BudgetInputs == {0, 100000}
\* kwargs of update_campaign: none, a status, or results=None
StatusInputs == {"draft", "scheduled"}
Patches ==
    {[key |-> "", val |-> ""], [key |-> "results", val |-> ""]}
    \cup {[key |-> "status", val |-> s] : s \in StatusInputs}

\* update_campaign lines 380-389: setattr for every key the campaign has
ApplyPatch(campaign, patch) ==
    IF patch.key = "status" THEN [campaign EXCEPT !.status = patch.val]
    ELSE campaign

\* launch_campaign line 417
AudienceSizes(ids) == IF ids # {} THEN {Cardinality(ids)} ELSE FallbackSizes

Init ==
    /\ customers = <<>>
    /\ segments = <<>>
    /\ campaigns = <<>>
    /\ results = <<>>
    /\ bus = "uninit"
    /\ now = 1
    /\ users = {}
    /\ segment_customers = {}
    /\ session = NoUser
    /\ procs = NoRequests
    /\ last = Call("init", 0, "", 0, <<>>)

(***************************************************************************)
(* Customer services.                                                      *)
(***************************************************************************)
\* Customer(...) with the column defaults of models.py
NewCustomer(email, status) ==
    [email |-> email, status |-> status, demographics |-> EmptyBag]

\* Faulty variant of EmailHeld: the email column has no unique constraint.
EmailFree(custs, email, except) == FALSE

\* the unique constraint on customer.email: a row other than row `except`
\* holds the email
EmailHeld(custs, email, except) ==
    \E i \in DOMAIN custs : i # except /\ custs[i].email = email

\* setattr(customer, key, value)
SetAttr(customer, key, value) ==
    IF key = "email" THEN [customer EXCEPT !.email = value]
    ELSE [customer EXCEPT !.status = value]

\* Faulty variant of create_customer: every segment's count follows the new row.
create_customer_counted(email, status) ==
    /\ Len(customers) < MaxCustomers
    /\ ~EmailHeld(customers, email, 0)
    /\ customers' = Append(customers, NewCustomer(email, status))
    /\ segments' = [id \in DOMAIN segments |->
                       [segments[id] EXCEPT !.customer_count = @ + 1]]
    /\ last' = Call("create_customer", Len(customers) + 1, "customer", 0, <<>>)
    /\ UNCHANGED <<campaigns, results, bus, now, users, segment_customers, session, procs>>

\* The commit of a row whose email another row holds raises IntegrityError
\* (unique=True, models.py line 36) and nothing is written.
create_customer(email, status) ==
    IF EmailHeld(customers, email, 0)
    THEN /\ last' = Call("create_customer", 0, "raise", 0, <<>>)
         /\ UNCHANGED <<customers, segments, campaigns, results, bus, now, users, segment_customers, session, procs>>
    ELSE /\ Len(customers) < MaxCustomers
         /\ customers' = Append(customers, NewCustomer(email, status))
         /\ last' = Call("create_customer", Len(customers) + 1, "customer", 0, <<>>)
         /\ UNCHANGED <<segments, campaigns, results, bus, now, users, segment_customers, session, procs>>

\* kwargs is one keyword: status or email (setattr, lines 145-146); an email
\* another row holds makes the commit raise and nothing is written.
update_customer(id, key, value) ==
    IF id \notin DOMAIN customers
    THEN /\ last' = Call("update_customer", id, "none", 0, <<>>)
         /\ UNCHANGED <<customers, segments, campaigns, results, bus, now, users, segment_customers, session, procs>>
    ELSE IF key = "email" /\ EmailHeld(customers, value, id)
    THEN /\ last' = Call("update_customer", id, "raise", 0, <<>>)
         /\ UNCHANGED <<customers, segments, campaigns, results, bus, now, users, segment_customers, session, procs>>
    ELSE /\ customers' = [customers EXCEPT ![id] = SetAttr(@, key, value)]
         /\ last' = Call("update_customer", id, "customer", 0, <<>>)
         /\ UNCHANGED <<segments, campaigns, results, bus, now, users, segment_customers, session, procs>>

(***************************************************************************)
(* Segmentation services.                                                  *)
(***************************************************************************)
create_segment(criteria) ==
    /\ Len(segments) < MaxSegments
    /\ LET id == Len(segments) + 1
           committed == Append(segments, [criteria |-> StoreCriteria(criteria),
                                          customer_count |-> 0])
           r == Refreshed(committed, customers, id)
       IN  /\ segments' = r.segs
           /\ last' = Call("create_segment", id, r.ret, 0, <<>>)
    /\ UNCHANGED <<customers, campaigns, results, bus, now, users, segment_customers, session, procs>>

update_segment(id, criteria) ==
    IF id \notin DOMAIN segments
    THEN /\ last' = Call("update_segment", id, "none", 0, <<>>)
         /\ UNCHANGED <<customers, segments, campaigns, results, bus, now, users, segment_customers, session, procs>>
    ELSE LET committed == [segments EXCEPT ![id].criteria = StoreCriteria(criteria)]
             r == Refreshed(committed, customers, id)
         IN  /\ segments' = r.segs
             /\ last' = Call("update_segment", id, r.ret, 0, <<>>)
             /\ UNCHANGED <<customers, campaigns, results, bus, now, users, segment_customers, session, procs>>

refresh_segment(id) ==
    LET r == Refreshed(segments, customers, id)
    IN  /\ segments' = r.segs
        /\ last' = Call("refresh_segment", id, r.ret, 0, <<>>)
        /\ UNCHANGED <<customers, campaigns, results, bus, now, users, segment_customers, session, procs>>

\* a call of get_segment_customers from outside (the membership query)
segment_customers_query(id) ==
    LET m == get_segment_customers(segments, customers, id)
    IN  /\ last' = IF m.ok
                   THEN Call("get_segment_customers", id, "list",
                             Cardinality(m.ids), <<>>)
                   ELSE Call("get_segment_customers", id, "raise", 0, <<>>)
        /\ UNCHANGED <<customers, segments, campaigns, results, bus, now, users, segment_customers, session, procs>>

(***************************************************************************)
(* Campaign services.                                                      *)
(***************************************************************************)
\* The segment_id foreign key (models.py line 154) is enforced by the store
\* (PostgreSQL, config.py): a campaign on an unknown segment is refused by the
\* commit and the IntegrityError leaves the function before any publish.
create_campaign(segment_id, campaign_type, schedule_time, budget) ==
    /\ Len(campaigns) < MaxCampaigns
    /\ IF segment_id \notin DOMAIN segments
       THEN /\ last' = Call("create_campaign", 0, "raise", 0, <<>>)
            /\ UNCHANGED <<customers, segments, campaigns, results, bus, now, users, segment_customers, session, procs>>
       ELSE LET id == Len(campaigns) + 1
                campaign == NewCampaign(segment_id, campaign_type,
                                        schedule_time, budget)
            IN  /\ campaigns' = Append(campaigns, campaign)
                /\ results' = Append(results, NewResult(id))
                /\ \E b \in get_instance(bus) :
                     \E trace \in Published(b, CreatedEvent(id, campaign)) :
                        /\ bus' = b
                        /\ last' = Call("create_campaign", id,
                                        AfterPublish(trace), 0, trace)
                /\ UNCHANGED <<customers, segments, now, users, segment_customers, session, procs>>

\* results=None would null campaign_result.campaign_id (nullable=False,
\* models.py line 207): the commit raises and nothing is written or published.
update_campaign(id, patch) ==
    IF id \notin DOMAIN campaigns
    THEN /\ last' = Call("update_campaign", id, "none", 0, <<>>)
         /\ UNCHANGED <<customers, segments, campaigns, results, bus, now, users, segment_customers, session, procs>>
    ELSE IF patch.key = "results"
    THEN /\ last' = Call("update_campaign", id, "raise", 0, <<>>)
         /\ UNCHANGED <<customers, segments, campaigns, results, bus, now, users, segment_customers, session, procs>>
    ELSE LET campaign == ApplyPatch(campaigns[id], patch)
         IN  /\ campaigns' = [campaigns EXCEPT ![id] = campaign]
             /\ \E b \in get_instance(bus) :
                  \E trace \in Published(b, UpdatedEvent(id, campaign)) :
                     /\ bus' = b
                     /\ last' = Call("update_campaign", id,
                                     AfterPublish(trace), 0, trace)
             /\ UNCHANGED <<customers, segments, results, now, users, segment_customers, session, procs>>

launch_campaign(id) ==
    IF id \notin DOMAIN campaigns
    THEN /\ last' = Call("launch_campaign", id, "none", 0, <<>>)
         /\ UNCHANGED <<customers, segments, campaigns, results, bus, now, users, segment_customers, session, procs>>
    ELSE IF ~LaunchAllowed(campaigns[id])
    THEN /\ last' = Call("launch_campaign", id, "campaign", 0, <<>>)
         /\ UNCHANGED <<customers, segments, campaigns, results, bus, now, users, segment_customers, session, procs>>
    ELSE LET campaign == campaigns[id]
             m == get_segment_customers(segments, customers, campaign.segment_id)
             rs == ResultsOf(results, id)
         IN  IF ~m.ok
             THEN /\ last' = Call("launch_campaign", id, "raise", 0, <<>>)
                  /\ UNCHANGED <<customers, segments, campaigns, results, bus, now, users, segment_customers, session, procs>>
             ELSE /\ now =< MaxTime
                  /\ \E audience_size \in AudienceSizes(m.ids) : \E d \in Draws :
                       /\ campaigns' = [campaigns EXCEPT ![id] = Launched(campaign, now)]
                       /\ results' =
                            IF rs = {} THEN results
                            ELSE LET i == CHOOSE i \in rs : TRUE
                                 IN  [results EXCEPT ![i] =
                                        Simulate(campaign, results[i], audience_size, d)]
                  /\ now' = now + 1
                  /\ last' = Call("launch_campaign", id, "campaign", 0, <<>>)
                  /\ UNCHANGED <<customers, segments, bus, users, segment_customers, session, procs>>

pause_campaign(id) ==
    IF id \in DOMAIN campaigns /\ PauseAllowed(campaigns[id])
    THEN /\ campaigns' = [campaigns EXCEPT ![id] = Paused(campaigns[id])]
         /\ last' = Call("pause_campaign", id, "campaign", 0, <<>>)
         /\ UNCHANGED <<customers, segments, results, bus, now, users, segment_customers, session, procs>>
    ELSE /\ last' = Call("pause_campaign", id,
                         IF id \in DOMAIN campaigns THEN "campaign" ELSE "none",
                         0, <<>>)
         /\ UNCHANGED <<customers, segments, campaigns, results, bus, now, users, segment_customers, session, procs>>

resume_campaign(id) ==
    IF id \in DOMAIN campaigns /\ ResumeAllowed(campaigns[id])
    THEN /\ campaigns' = [campaigns EXCEPT ![id] = Resumed(campaigns[id])]
         /\ last' = Call("resume_campaign", id, "campaign", 0, <<>>)
         /\ UNCHANGED <<customers, segments, results, bus, now, users, segment_customers, session, procs>>
    ELSE /\ last' = Call("resume_campaign", id,
                         IF id \in DOMAIN campaigns THEN "campaign" ELSE "none",
                         0, <<>>)
         /\ UNCHANGED <<customers, segments, campaigns, results, bus, now, users, segment_customers, session, procs>>

complete_campaign(id) ==
    IF id \in DOMAIN campaigns
    THEN /\ now =< MaxTime
         /\ campaigns' = [campaigns EXCEPT ![id] = Completed(campaigns[id], now)]
         /\ now' = now + 1
         /\ last' = Call("complete_campaign", id, "campaign", 0, <<>>)
         /\ UNCHANGED <<customers, segments, results, bus, users, segment_customers, session, procs>>
    ELSE /\ last' = Call("complete_campaign", id, "none", 0, <<>>)
         /\ UNCHANGED <<customers, segments, campaigns, results, bus, now, users, segment_customers, session, procs>>

\* The criteria the campaign specification's segments are created with.
CampaignSegmentInputs == {DictArg(LeadCriteria), StrArg("not json")}

(***************************************************************************)
(* Spec: the campaign services over a store that create_customer and       *)
(* create_segment populate.                                                *)
(***************************************************************************)
Next ==
    \/ \E st \in CustomerStatuses : create_customer(FirstEmail, st)
    \/ \E id \in CustomerIds : \E st \in CustomerStatuses :
         update_customer(id, "status", st)
    \/ \E cr \in CampaignSegmentInputs : create_segment(cr)
    \/ \E sid \in SegmentIds : \E ct \in CampaignTypes :
         \E sch \in ScheduleInputs : \E bu \in BudgetInputs :
            create_campaign(sid, ct, sch, bu)
    \/ \E id \in CampaignIds : \E patch \in Patches : update_campaign(id, patch)
    \/ \E id \in CampaignIds : launch_campaign(id)
    \/ \E id \in CampaignIds : pause_campaign(id)
    \/ \E id \in CampaignIds : resume_campaign(id)
    \/ \E id \in CampaignIds : complete_campaign(id)

Spec == Init /\ [][Next]_vars

(***************************************************************************)
(* SpecSegments: the customer and segmentation services.                   *)
(***************************************************************************)
NextSegments ==
    \/ \E st \in CustomerStatuses : create_customer(FirstEmail, st)
    \/ \E id \in CustomerIds : \E st \in CustomerStatuses :
         update_customer(id, "status", st)
    \/ \E cr \in CriteriaInputs : create_segment(cr)
    \/ \E id \in SegmentIds : \E cr \in CriteriaInputs : update_segment(id, cr)
    \/ \E id \in SegmentIds : refresh_segment(id)
    \/ \E id \in SegmentIds : segment_customers_query(id)

SpecSegments == Init /\ [][NextSegments]_vars

(***************************************************************************)
(* SpecEval: the criteria evaluator applied to one customer and one        *)
(* segment, both drawn by the initial state.                               *)
(***************************************************************************)
EvalCustomers ==
    {[status |-> "lead",
      demographics |-> [k \in {"age"} |-> Num(30)],
      behavioral_data |-> [k \in {"visits"} |-> Big],
      total_spent |-> Num(1500),
      phone |-> None],
     [status |-> "customer", demographics |-> EmptyBag,
      total_spent |-> Num(0), phone |-> None]}
EvalPaths ==
    {<<"status">>, <<"demographics", "age">>, <<"demographics", "city">>,
     <<"behavioral_data", "visits">>, <<"total_spent">>, <<"phone">>,
     <<"nickname">>, <<"">>, <<"demographics">>, <<"purchase_history">>}
EvalOperators ==
    {"eq", "neq", "gt", "gte", "lt", "lte", "contains", "in", "regex"}
EvalExpected ==
    {Str("lead"), Str("ea"), Num(30), Big, None, BagValue,
     ListVal(<<Str("lead"), Num(30)>>)}
EvalRules ==
    {[field |-> f, operator |-> o, value |-> v] :
        f \in EvalPaths, o \in EvalOperators, v \in EvalExpected}
\* the rules that rule lists of two are made of: true, false and raising ones
EvalPairRules ==
    {[field |-> f, operator |-> o, value |-> v] :
        f \in {<<"status">>, <<"demographics", "age">>},
        o \in {"eq", "gt"}, v \in {Str("lead"), Big}}
EvalRuleLists ==
    {<<>>} \cup {<<r>> : r \in EvalRules}
    \cup {<<r1, r2>> : r1 \in EvalPairRules, r2 \in EvalPairRules}
EvalCriteria ==
    {[rules |-> rs, match |-> m] : rs \in EvalRuleLists, m \in {"all", "any"}}

InitEval ==
    /\ customers \in {<<c>> : c \in EvalCustomers}
    /\ segments \in {<<[criteria |-> JsonDumps(cr), customer_count |-> 0]>> :
                        cr \in EvalCriteria}
    /\ campaigns = <<>>
    /\ results = <<>>
    /\ bus = "uninit"
    /\ now = 1
    /\ users = {}
    /\ segment_customers = {}
    /\ session = NoUser
    /\ procs = NoRequests
    /\ last = Call("init", 0, "", 0, <<>>)

\* what a call of the evaluator gave: "true", "false" or "raise"
Verdict(r) == IF ~r.ok THEN "raise" ELSE IF r.val THEN "true" ELSE "false"

\* evaluate_segment_criteria(customer, segment.get_criteria())
evaluate_criteria ==
    /\ last' = Call("evaluate_segment_criteria", 1,
                    Verdict(evaluate_segment_criteria(
                                customers[1], get_criteria(segments[1]).val)),
                    0, <<>>)
    /\ UNCHANGED <<customers, segments, campaigns, results, bus, now, users, segment_customers, session, procs>>

\* evaluate_rule on rule i of the segment's criteria (lines 222-232)
evaluate_one_rule(i) ==
    /\ i \in DOMAIN get_criteria(segments[1]).val.rules
    /\ last' = Call("evaluate_rule", i,
                    Verdict(RuleResult(customers[1],
                                       get_criteria(segments[1]).val.rules, i)),
                    0, <<>>)
    /\ UNCHANGED <<customers, segments, campaigns, results, bus, now, users, segment_customers, session, procs>>

NextEval ==
    \/ evaluate_criteria
    \/ \E i \in 1..2 : evaluate_one_rule(i)

SpecEval == InitEval /\ [][NextEval]_vars

(***************************************************************************)
(* Analytics.  A percentage is kept in hundredths of a percent, truncated; *)
(* a computed figure is a value or a ZeroDivisionError (ok = FALSE).       *)
(***************************************************************************)
\* a / b * 100
Divide(a, b) ==
    IF b = 0 THEN [ok |-> FALSE, val |-> 0]
    ELSE \* (a * 10000) \div b, taken two digits at a time to keep the
         \* intermediate products small
         LET q == a \div b
             r == a % b
             q2 == (r * 100) \div b
             r2 == (r * 100) % b
         IN  [ok |-> TRUE, val |-> q * 10000 + q2 * 100 + (r2 * 100) \div b]

\* Faulty variant of Guarded: the guard lets a zero denominator through.
GuardedFromZero(a, b) == IF b >= 0 THEN Divide(a, b) ELSE [ok |-> TRUE, val |-> 0]

\* (a / b * 100) if b > 0 else 0
Guarded(a, b) == IF b > 0 THEN Divide(a, b) ELSE [ok |-> TRUE, val |-> 0]

\* CampaignResult.calculate_metrics: the derived figures
calculate_metrics(r) ==
    [campaign_id |-> r.campaign_id,
     revenue_attributed |-> r.revenue_attributed,
     total_cost |-> r.total_cost,
     conversions |-> r.conversions,
     delivery_rate |-> Guarded(r.delivered, r.total_sent),
     open_rate |-> Guarded(r.opens, r.delivered),
     click_rate |-> Guarded(r.clicks, r.opens),
     ctr |-> Guarded(r.clicks, r.delivered),
     conversion_rate |-> Guarded(r.conversions, r.clicks),
     roi |-> Guarded(r.revenue_attributed - r.total_cost, r.total_cost)]

\* sum(r.<column> for r in results)
RECURSIVE Total(_, _)
Total(rs, column) ==
    IF rs = <<>> THEN 0 ELSE rs[1][column] + Total(Tail(rs), column)

\* len([c for c in campaigns if c.status == status])
CountStatus(cs, status) == Cardinality({i \in DOMAIN cs : cs[i].status = status})

get_analytics_overview(cs, rs, custs, segs) ==
    [total_campaigns |-> Len(cs),
     active_campaigns |-> CountStatus(cs, "active"),
     completed_campaigns |-> CountStatus(cs, "completed"),
     draft_campaigns |-> CountStatus(cs, "draft"),
     total_sent |-> Total(rs, "total_sent"),
     total_opens |-> Total(rs, "opens"),
     total_clicks |-> Total(rs, "clicks"),
     total_conversions |-> Total(rs, "conversions"),
     overall_open_rate |-> Guarded(Total(rs, "opens"), Total(rs, "total_sent")),
     overall_click_rate |-> Guarded(Total(rs, "clicks"), Total(rs, "opens")),
     overall_conversion_rate |->
        Guarded(Total(rs, "conversions"), Total(rs, "clicks")),
     total_revenue |-> Total(rs, "revenue_attributed"),
     total_cost |-> Total(rs, "total_cost"),
     overall_roi |-> Guarded(Total(rs, "revenue_attributed")
                                - Total(rs, "total_cost"),
                             Total(rs, "total_cost")),
     total_customers |-> Len(custs),
     total_segments |-> Len(segs),
     total_leads |-> Cardinality({i \in DOMAIN custs : custs[i].status = "lead"})]

\* get_conversion_funnel: the percentage of each stage after Sent
get_conversion_funnel(rs) ==
    [Delivered |-> Guarded(Total(rs, "delivered"), Total(rs, "total_sent")),
     Opened |-> Guarded(Total(rs, "opens"), Total(rs, "total_sent")),
     Clicked |-> Guarded(Total(rs, "clicks"), Total(rs, "total_sent")),
     Leads |-> Guarded(Total(rs, "leads_generated"), Total(rs, "total_sent")),
     Converted |-> Guarded(Total(rs, "conversions"), Total(rs, "total_sent"))]

\* Faulty variant of Reportable: every launched campaign is reported.
ReportableLaunched(campaign) ==
    campaign.status \in {"active", "paused", "completed"}

\* Campaign.status.in_(['active', 'completed'])
Reportable(campaign) == campaign.status \in {"active", "completed"}

\* sorted(report, key=roi, reverse=True): stable, equal keys keep their order
RECURSIVE InsertByRoi(_, _)
InsertByRoi(row, sorted) ==
    IF sorted = <<>> THEN <<row>>
    ELSE IF sorted[1].roi.val >= row.roi.val
         THEN <<sorted[1]>> \o InsertByRoi(row, Tail(sorted))
         ELSE <<row>> \o sorted
RECURSIVE SortedByRoi(_)
SortedByRoi(rows) ==
    IF rows = <<>> THEN <<>>
    ELSE InsertByRoi(rows[Len(rows)], SortedByRoi(SubSeq(rows, 1, Len(rows) - 1)))

\* the rows of the ROI report before sorting, in id order
RECURSIVE ReportRows(_, _, _)
ReportRows(cs, rs, id) ==
    IF id > Len(cs) THEN <<>>
    ELSE (IF Reportable(cs[id]) /\ ResultsOf(rs, id) # {}
          THEN LET metrics == calculate_metrics(rs[CHOOSE i \in ResultsOf(rs, id) : TRUE])
               IN  <<[campaign_id |-> id, status |-> cs[id].status,
                      revenue |-> metrics.revenue_attributed,
                      cost |-> metrics.total_cost, roi |-> metrics.roi,
                      conversions |-> metrics.conversions]>>
          ELSE <<>>)
         \o ReportRows(cs, rs, id + 1)

get_campaign_roi_report(cs, rs) == SortedByRoi(ReportRows(cs, rs, 1))

\* The record of an analytics call: Call with the returned report.
Report(op, id, ret, value) ==
    [op |-> op, id |-> id, ret |-> ret, n |-> 0, published |-> <<>>,
     value |-> value]

(***************************************************************************)
(* SpecAnalytics: the analytics functions over a store of campaigns and    *)
(* results drawn by the initial state.                                     *)
(***************************************************************************)
MaxReported == 2

\* a result row with the given counters
Counters(sent, delivered, opens, clicks, leads, conversions, revenue, cost) ==
    [NewResult(0) EXCEPT
        !.total_sent = sent, !.delivered = delivered,
        !.bounced = sent - delivered, !.opens = opens, !.clicks = clicks,
        !.leads_generated = leads, !.conversions = conversions,
        !.revenue_attributed = revenue, !.total_cost = cost]
AnalyticsRows ==
    {NewResult(0),
     Counters(1, 0, 0, 0, 0, 0, 0, 1),
     Counters(10, 9, 0, 0, 0, 0, 0, 10),
     Counters(10, 9, 3, 0, 0, 0, 0, 10),
     Counters(10, 9, 3, 2, 1, 1, 5000, 10),
     Counters(10, 8, 4, 2, 1, 2, 20000, 50010),
     Counters(10, 10, 5, 1, 1, 1, 7000, 0)}
AnalyticsStatuses == Statuses
AnalyticsStores ==
    UNION {[1..k -> AnalyticsStatuses \X AnalyticsRows] : k \in 0..MaxReported}

InitAnalytics ==
    /\ \E store \in AnalyticsStores :
         /\ campaigns = [i \in DOMAIN store |->
                            [NewCampaign(1, "email", NoDate, 0)
                               EXCEPT !.status = store[i][1]]]
         /\ results = [i \in DOMAIN store |->
                          [store[i][2] EXCEPT !.campaign_id = i]]
    /\ customers = <<>>
    /\ segments = <<[criteria |-> JsonDumps(EmptyCriteria), customer_count |-> 0]>>
    /\ bus = "uninit"
    /\ now = 1
    /\ users = {}
    /\ segment_customers = {}
    /\ session = NoUser
    /\ procs = NoRequests
    /\ last = Call("init", 0, "", 0, <<>>)

get_campaign_stats(id) ==
    /\ last' = IF id \in DOMAIN campaigns /\ ResultsOf(results, id) # {}
               THEN Report("get_campaign_stats", id, "metrics",
                      calculate_metrics(
                         results[CHOOSE i \in ResultsOf(results, id) : TRUE]))
               ELSE Report("get_campaign_stats", id, "none", <<>>)
    /\ UNCHANGED <<customers, segments, campaigns, results, bus, now, users, segment_customers, session, procs>>

analytics_overview ==
    /\ last' = Report("get_analytics_overview", 0, "overview",
                      get_analytics_overview(campaigns, results, customers, segments))
    /\ UNCHANGED <<customers, segments, campaigns, results, bus, now, users, segment_customers, session, procs>>

conversion_funnel ==
    /\ last' = Report("get_conversion_funnel", 0, "funnel",
                      get_conversion_funnel(results))
    /\ UNCHANGED <<customers, segments, campaigns, results, bus, now, users, segment_customers, session, procs>>

campaign_roi_report ==
    /\ last' = Report("get_campaign_roi_report", 0, "report",
                      get_campaign_roi_report(campaigns, results))
    /\ UNCHANGED <<customers, segments, campaigns, results, bus, now, users, segment_customers, session, procs>>

NextAnalytics ==
    \/ \E id \in 1..(MaxReported + 1) : get_campaign_stats(id)
    \/ analytics_overview
    \/ conversion_funnel
    \/ campaign_roi_report

SpecAnalytics == InitAnalytics /\ [][NextAnalytics]_vars

(***************************************************************************)
(* SpecDemo: initialize_demo_data, on an empty store and on stores that    *)
(* create_customer, create_segment and create_campaign have written to.    *)
(***************************************************************************)
DemoCustomers == 50

\* generate_sample_customers: the random attributes of a customer, sampled
DemoProfiles ==
    {[status |-> "lead", demographics |-> [k \in {"age"} |-> Num(30)],
      total_spent |-> Num(450000), engagement_score |-> Num(90)],
     [status |-> "prospect", demographics |-> [k \in {"age"} |-> Num(65)],
      total_spent |-> Num(0), engagement_score |-> Num(10)],
     [status |-> "customer", demographics |-> [k \in {"age"} |-> Num(22)],
      total_spent |-> Num(100000), engagement_score |-> Num(70)]}
\* the 50 rows: all of one profile, or the two given profiles in turn; the
\* email of the i-th row (line 634) for one pick of the names
DemoPopulations ==
    {[i \in 1..DemoCustomers |->
        [email |-> Email("john.smith", i - 1)]
           @@ (IF i % 2 = 0 THEN p ELSE q)] :
        p \in DemoProfiles, q \in DemoProfiles}

\* the criteria of the four sample segments (lines 692-721)
DemoCriteria ==
    <<[rules |-> <<[field |-> <<"total_spent">>, operator |-> "gt",
                    value |-> Num(100000)]>>, match |-> "all"],
      [rules |-> <<[field |-> <<"demographics", "age">>, operator |-> "gte",
                    value |-> Num(25)],
                   [field |-> <<"demographics", "age">>, operator |-> "lte",
                    value |-> Num(40)]>>, match |-> "all"],
      [rules |-> <<[field |-> <<"engagement_score">>, operator |-> "gte",
                    value |-> Num(70)]>>, match |-> "all"],
      [rules |-> <<[field |-> <<"status">>, operator |-> "eq",
                    value |-> Str("lead")]>>, match |-> "all"]>>
\* campaign_type and budget of the three sample campaigns (lines 724-750)
DemoCampaigns ==
    <<[campaign_type |-> "email", budget |-> 50000],
      [campaign_type |-> "social", budget |-> 100000],
      [campaign_type |-> "email", budget |-> 30000]>>

\* the segments after create_segment of the first k sample criteria
RECURSIVE SeededSegments(_, _, _)
SeededSegments(segs, custs, k) ==
    IF k = 0 THEN segs
    ELSE LET before == SeededSegments(segs, custs, k - 1)
         IN  Refreshed(Append(before, [criteria |-> JsonDumps(DemoCriteria[k]),
                                       customer_count |-> 0]),
                       custs, Len(before) + 1).segs

\* Faulty variant of AlreadyInitialized: looks for a whole sample population.
AlreadySeeded(custs) == Len(custs) >= DemoCustomers

\* Customer.query.first() is not None
AlreadyInitialized(custs) == custs # <<>>

initialize_demo_data ==
    IF AlreadyInitialized(customers)
    THEN /\ last' = Call("initialize_demo_data", 0, "false", 0, <<>>)
         /\ UNCHANGED <<customers, segments, campaigns, results, bus, now, users, segment_customers, session, procs>>
    ELSE /\ now + 2 =< MaxTime
         /\ \E population \in DemoPopulations :
              LET segs == SeededSegments(segments, population, Len(DemoCriteria))
                  s0 == Len(segments)
                  c0 == Len(campaigns)
                  created ==
                     [k \in 1..Len(DemoCampaigns) |->
                        NewCampaign(s0 + k, DemoCampaigns[k].campaign_type,
                                    NoDate, DemoCampaigns[k].budget)]
                  rows == [k \in 1..Len(DemoCampaigns) |-> NewResult(c0 + k)]
                  m1 == get_segment_customers(segs, population, s0 + 1)
                  m2 == get_segment_customers(segs, population, s0 + 2)
              IN  /\ users' = users \cup {"admin"}
                  /\ customers' = population
                  /\ segments' = segs
                  /\ \E a1 \in AudienceSizes(m1.ids), a2 \in AudienceSizes(m2.ids),
                        d1 \in Draws, d2 \in Draws :
                       /\ campaigns' = campaigns \o
                            <<Completed(Launched(created[1], now), now + 1),
                              Launched(created[2], now + 2),
                              created[3]>>
                       /\ results' = results \o
                            <<Simulate(created[1], rows[1], a1, d1),
                              Simulate(created[2], rows[2], a2, d2),
                              rows[3]>>
                  /\ \E b \in get_instance(bus) :
                       \E t1 \in Published(b, CreatedEvent(c0 + 1, created[1])),
                          t2 \in Published(b, CreatedEvent(c0 + 2, created[2])),
                          t3 \in Published(b, CreatedEvent(c0 + 3, created[3])) :
                            /\ bus' = b
                            /\ last' = Call("initialize_demo_data", 0, "true", 0,
                                            t1 \o t2 \o t3)
         /\ now' = now + 3
         /\ UNCHANGED <<segment_customers, session, procs>>

NextDemo ==
    \/ initialize_demo_data
    \/ \E st \in CustomerStatuses : create_customer(FirstEmail, st)
    \/ create_segment(DictArg(LeadCriteria))
    \/ \E sid \in SegmentIds : create_campaign(sid, "email", NoDate, 0)

SpecDemo == Init /\ [][NextDemo]_vars

(***************************************************************************)
(* The HTTP routes (routes.py).  A request comes from the one client whose *)
(* cookie is session.  When a route answers without calling a service      *)
(* function, last records the route-level function that answered           *)
(* ("login_required", "login", "logout", "routes.create_customer", ...);    *)
(* otherwise last is the record of the service call the route made, and    *)
(* Status gives the status code the route derives from what it returned.    *)
(* A request with a body is a JSON request; a request without one may or    *)
(* may not carry the JSON content type (is_json).                           *)
(***************************************************************************)
\* the password of every user the program creates (services.py line 685)
AdminPassword == "admin123"

\* create_user (username is unique: a second row of the name is refused)
create_user(username) ==
    IF username \in users
    THEN /\ last' = Call("create_user", 0, "raise", 0, <<>>)
         /\ UNCHANGED <<customers, segments, campaigns, results, bus, now, users, segment_customers, session, procs>>
    ELSE /\ users' = users \cup {username}
         /\ last' = Call("create_user", 0, "user", 0, <<>>)
         /\ UNCHANGED <<customers, segments, campaigns, results, bus, now, segment_customers, session, procs>>

\* authenticate_user: the user exists and the password hashes to its hash
authenticate_user(us, username, password) ==
    username \in us /\ password = AdminPassword

\* 'user_id' in session
Authenticated(s) == s # NoUser

\* login_required around a view: without a session the view is not called
login_required(is_json, view) ==
    IF ~Authenticated(session)
    THEN /\ last' = Call("login_required", 0,
                         IF is_json THEN "unauthorized" ELSE "redirect", 0, <<>>)
         /\ UNCHANGED <<customers, segments, campaigns, results, bus, now, users, segment_customers, session, procs>>
    ELSE view

\* a route's own answer, made without a service call
Answered(route, ret) ==
    /\ last' = Call(route, 0, ret, 0, <<>>)
    /\ UNCHANGED <<customers, segments, campaigns, results, bus, now, users, segment_customers, session, procs>>

\* The status code of the response, from the record of what answered.
Status(call) ==
    CASE call.ret = "unauthorized" -> 401
      [] call.ret = "redirect" -> 302
      [] call.ret = "bad_request" -> 400
      [] call.ret = "invalid_credentials" -> 401
      [] call.ret = "none" -> 404
      [] call.ret = "raise" ->
            IF call.op \in {"create_customer", "create_campaign"} THEN 400
            ELSE 500
      [] call.ret = "true" -> 201
      [] OTHER ->
            IF call.op \in {"create_customer", "create_segment", "create_campaign"}
            THEN 201 ELSE 200

\* the bodies of POST /auth/login
LoginBodies ==
    {[complete |-> FALSE, username |-> "", password |-> ""],
     [complete |-> TRUE, username |-> "admin", password |-> AdminPassword],
     [complete |-> TRUE, username |-> "admin", password |-> "guess"],
     [complete |-> TRUE, username |-> "nobody", password |-> AdminPassword]}

routes_login(data) ==
    IF ~data.complete THEN Answered("login", "bad_request")
    ELSE IF authenticate_user(users, data.username, data.password)
    THEN /\ session' = data.username
         /\ last' = Call("login", 0, "ok", 0, <<>>)
         /\ UNCHANGED <<customers, segments, campaigns, results, bus, now, users, segment_customers, procs>>
    ELSE Answered("login", "invalid_credentials")

routes_logout ==
    /\ session' = NoUser
    /\ last' = Call("logout", 0, "ok", 0, <<>>)
    /\ UNCHANGED <<customers, segments, campaigns, results, bus, now, users, segment_customers, procs>>

\* get_customer_by_id, get_segment_by_id, get_campaign_by_id: Model.query.get
get_by_id(op, table, id) ==
    /\ last' = Call(op, id, IF id \in DOMAIN table THEN "row" ELSE "none", 0, <<>>)
    /\ UNCHANGED <<customers, segments, campaigns, results, bus, now, users, segment_customers, session, procs>>

\* the bodies of POST /customers
CustomerBodies ==
    {[complete |-> FALSE, email |-> FirstEmail, status |-> "lead"]}
    \cup {[complete |-> TRUE, email |-> em, status |-> "lead"] : em \in EmailInputs}

routes_get_customer(is_json, id) ==
    login_required(is_json, get_by_id("get_customer_by_id", customers, id))

routes_create_customer(data) ==
    login_required(TRUE,
        IF ~data.complete THEN Answered("routes.create_customer", "bad_request")
        ELSE create_customer(data.email, data.status))

routes_update_customer(id, key, value) ==
    login_required(TRUE, update_customer(id, key, value))

\* POST /segments: a str criteria is wrapped in a dict with no rules
routes_create_segment(criteria) ==
    login_required(TRUE,
        create_segment(IF criteria.isdict THEN criteria
                       ELSE DictArg(EmptyCriteria)))

routes_get_segment(is_json, id) ==
    login_required(is_json, get_by_id("get_segment_by_id", segments, id))

routes_update_segment(id, criteria) ==
    login_required(TRUE, update_segment(id, criteria))

routes_get_segment_customers(is_json, id) ==
    login_required(is_json, segment_customers_query(id))

routes_refresh_segment(is_json, id) ==
    login_required(is_json, refresh_segment(id))

routes_create_campaign(data) ==
    login_required(TRUE,
        IF ~data.complete THEN Answered("routes.create_campaign", "bad_request")
        ELSE create_campaign(data.segment_id, "email", NoDate, 0))

routes_get_campaign(is_json, id) ==
    login_required(is_json, get_by_id("get_campaign_by_id", campaigns, id))

routes_update_campaign(id, patch) ==
    login_required(TRUE, update_campaign(id, patch))

routes_launch_campaign(is_json, id) ==
    login_required(is_json, launch_campaign(id))

routes_resume_campaign(is_json, id) ==
    login_required(is_json, resume_campaign(id))

routes_pause_campaign(is_json, id) ==
    login_required(is_json, pause_campaign(id))

routes_complete_campaign(is_json, id) ==
    login_required(is_json, complete_campaign(id))

routes_get_stats(is_json, id) ==
    login_required(is_json, get_campaign_stats(id))

routes_get_funnel(is_json) ==
    login_required(is_json, conversion_funnel)

(***************************************************************************)
(* SpecRoutes: the requests of one client to the routes under              *)
(* login_required, over a User table that create_user fills.  (The demo     *)
(* route has no login_required: it is initialize_demo_data of SpecDemo.)    *)
(***************************************************************************)
NextRoutes ==
    \/ create_user("admin")
    \/ \E data \in LoginBodies : routes_login(data)
    \/ routes_logout
    \/ \E j \in BOOLEAN : \E id \in CustomerIds : routes_get_customer(j, id)
    \/ \E data \in CustomerBodies : routes_create_customer(data)
    \/ \E id \in CustomerIds : \E em \in EmailInputs :
         routes_update_customer(id, "email", em)
    \/ \E cr \in {DictArg(LeadCriteria), StrArg("leads")} : routes_create_segment(cr)
    \/ \E j \in BOOLEAN : \E id \in SegmentIds : routes_get_segment(j, id)
    \/ \E id \in SegmentIds : \E cr \in {DictArg(LeadCriteria), StrArg("leads")} :
         routes_update_segment(id, cr)
    \/ \E j \in BOOLEAN : \E id \in SegmentIds : routes_get_segment_customers(j, id)
    \/ \E j \in BOOLEAN : \E id \in SegmentIds : routes_refresh_segment(j, id)
    \/ \E sid \in SegmentIds : \E complete \in BOOLEAN :
         routes_create_campaign([complete |-> complete, segment_id |-> sid])
    \/ \E j \in BOOLEAN : \E id \in CampaignIds : routes_get_campaign(j, id)
    \/ \E id \in CampaignIds : routes_update_campaign(id, [key |-> "", val |-> ""])
    \/ \E j \in BOOLEAN : \E id \in CampaignIds : routes_launch_campaign(j, id)
    \/ \E j \in BOOLEAN : \E id \in CampaignIds : routes_resume_campaign(j, id)
    \/ \E j \in BOOLEAN : \E id \in CampaignIds : routes_pause_campaign(j, id)
    \/ \E j \in BOOLEAN : \E id \in CampaignIds : routes_complete_campaign(j, id)
    \/ \E j \in BOOLEAN : \E id \in CampaignIds : routes_get_stats(j, id)
    \/ \E j \in BOOLEAN : routes_get_funnel(j)

SpecRoutes == Init /\ [][NextRoutes]_vars

(***************************************************************************)
(* Concurrent requests.  Each worker serves its request in a database      *)
(* session of its own: Campaign.query.get loads the row, the function      *)
(* tests and sets attributes on the loaded object, and db.session.commit() *)
(* writes the columns whose value differs from the loaded one.  No model   *)
(* has a version column and no query locks a row, so a commit is never     *)
(* refused because the stored row has changed since it was loaded.         *)
(***************************************************************************)
LifecycleOps ==
    {"launch_campaign", "pause_campaign", "resume_campaign", "complete_campaign"}

\* the UPDATE of a commit: the columns the session has changed
Merge(stored, loaded, new) ==
    [c \in DOMAIN stored |-> IF new[c] # loaded[c] THEN new[c] ELSE stored[c]]

\* Faulty variant of StaleRefused: the commit checks the row's version.
StaleRefusedVersioned(stored, loaded) == stored # loaded

\* a commit refused because the stored row is not the loaded one: never
StaleRefused(stored, loaded) == FALSE

\* the status test of each lifecycle function, on the loaded row
Allowed(op, campaign) ==
    CASE op = "launch_campaign" -> LaunchAllowed(campaign)
      [] op = "pause_campaign" -> PauseAllowed(campaign)
      [] op = "resume_campaign" -> ResumeAllowed(campaign)
      [] OTHER -> TRUE

\* the attributes pause, resume and complete set on the loaded row
Written(op, campaign, t) ==
    CASE op = "pause_campaign" -> Paused(campaign)
      [] op = "resume_campaign" -> Resumed(campaign)
      [] OTHER -> Completed(campaign, t)

\* a worker is back from its call
Return(p, ret, written) ==
    /\ procs' = [procs EXCEPT ![p] = [@ EXCEPT !.pc = "idle", !.written = written,
                                              !.ret = ret]]
    /\ last' = Call(procs[p].op, procs[p].id, ret, 0, <<>>)

\* campaign = Campaign.query.get(campaign_id), first line of each function
begin(p, op, id) ==
    /\ procs[p].pc = "idle"
    /\ IF id \notin DOMAIN campaigns
       THEN /\ last' = Call(op, id, "none", 0, <<>>)
            /\ UNCHANGED procs
       ELSE /\ procs' = [procs EXCEPT ![p] =
                           [@ EXCEPT !.pc = "loaded", !.op = op, !.id = id,
                                     !.campaign = <<campaigns[id]>>,
                                     !.result = <<>>, !.written = <<>>,
                                     !.ret = ""]]
            /\ UNCHANGED last
    /\ UNCHANGED <<customers, segments, campaigns, results, bus, now, users,
                   segment_customers, session>>

\* launch_campaign lines 412-458: the test, the audience, and the simulation
\* on the loaded campaign and its loaded result
simulate(p) ==
    /\ procs[p].pc = "loaded"
    /\ procs[p].op = "launch_campaign"
    /\ LET campaign == procs[p].campaign[1]
           id == procs[p].id
           m == get_segment_customers(segments, customers, campaign.segment_id)
           rs == ResultsOf(results, id)
       IN  IF ~LaunchAllowed(campaign)
           THEN Return(p, "campaign", <<>>) /\ UNCHANGED now
           ELSE IF ~m.ok
           THEN Return(p, "raise", <<>>) /\ UNCHANGED now
           ELSE /\ now =< MaxTime
                /\ \E audience_size \in AudienceSizes(m.ids) : \E d \in Draws :
                     LET loaded == IF rs = {} THEN <<>>
                                   ELSE <<results[CHOOSE i \in rs : TRUE]>>
                         set == IF rs = {} THEN <<>>
                                ELSE <<Simulate(campaign, loaded[1],
                                                audience_size, d)>>
                     IN  procs' = [procs EXCEPT ![p] =
                            [@ EXCEPT !.pc = "flushing",
                                      !.result = loaded,
                                      !.written = <<Launched(campaign, now)>> \o set,
                                      !.sims = @ + 1]]
                /\ now' = now + 1
                /\ UNCHANGED last
    /\ UNCHANGED <<customers, segments, campaigns, results, bus, users,
                   segment_customers, session>>

\* launch_campaign line 460: db.session.commit()
flush(p) ==
    /\ procs[p].pc = "flushing"
    /\ LET id == procs[p].id
           loaded == procs[p].campaign[1]
           written == procs[p].written
           rs == ResultsOf(results, id)
       IN  IF StaleRefused(campaigns[id], loaded)
           THEN /\ Return(p, "raise", <<>>)
                /\ UNCHANGED <<campaigns, results>>
           ELSE /\ campaigns' = [campaigns EXCEPT ![id] =
                                    Merge(@, loaded, written[1])]
                /\ results' =
                     IF Len(written) < 2 \/ rs = {} THEN results
                     ELSE [results EXCEPT ![CHOOSE i \in rs : TRUE] =
                              Merge(@, procs[p].result[1], written[2])]
                /\ Return(p, "campaign", written)
    /\ UNCHANGED <<customers, segments, bus, now, users, segment_customers, session>>

\* pause_campaign, resume_campaign, complete_campaign after the load: the
\* test on the loaded row, the attributes set, and the commit
finish(p) ==
    /\ procs[p].pc = "loaded"
    /\ procs[p].op # "launch_campaign"
    /\ LET op == procs[p].op
           id == procs[p].id
           loaded == procs[p].campaign[1]
       IN  IF ~Allowed(op, loaded)
           THEN /\ Return(p, "campaign", <<>>)
                /\ UNCHANGED <<campaigns, now>>
           ELSE /\ op = "complete_campaign" => now =< MaxTime
                /\ IF StaleRefused(campaigns[id], loaded)
                   THEN /\ Return(p, "raise", <<>>)
                        /\ UNCHANGED campaigns
                   ELSE /\ campaigns' = [campaigns EXCEPT ![id] =
                                Merge(@, loaded, Written(op, loaded, now))]
                        /\ Return(p, "campaign", <<Written(op, loaded, now)>>)
                /\ now' = IF op = "complete_campaign" THEN now + 1 ELSE now
    /\ UNCHANGED <<customers, segments, results, bus, users, segment_customers, session>>

(***************************************************************************)
(* SpecRace: two workers serving lifecycle requests on the campaigns that  *)
(* create_segment and create_campaign have stored.                         *)
(***************************************************************************)
NextRace ==
    \/ create_segment(DictArg(LeadCriteria))
    \/ \E sid \in SegmentIds : create_campaign(sid, "email", NoDate, 0)
    \/ \E p \in Workers : \E op \in LifecycleOps : \E id \in CampaignIds :
         begin(p, op, id)
    \/ \E p \in Workers : simulate(p)
    \/ \E p \in Workers : flush(p)
    \/ \E p \in Workers : finish(p)

SpecRace == Init /\ [][NextRace]_vars

(***************************************************************************)
(* SpecLifecycle: create_campaign, launch, pause, resume and complete      *)
(* called one after another (no update_campaign), over a store that        *)
(* create_customer and create_segment populate.                            *)
(***************************************************************************)
NextLifecycle ==
    \/ \E st \in CustomerStatuses : create_customer(FirstEmail, st)
    \/ \E cr \in CampaignSegmentInputs : create_segment(cr)
    \/ \E sid \in SegmentIds : \E ct \in CampaignTypes :
         \E sch \in ScheduleInputs : \E bu \in BudgetInputs :
            create_campaign(sid, ct, sch, bu)
    \/ \E id \in CampaignIds : launch_campaign(id)
    \/ \E id \in CampaignIds : pause_campaign(id)
    \/ \E id \in CampaignIds : resume_campaign(id)
    \/ \E id \in CampaignIds : complete_campaign(id)

SpecLifecycle == Init /\ [][NextLifecycle]_vars

(***************************************************************************)
(* SpecSimulate: the launch simulation over a wider sample of its random   *)
(* draws and of audience sizes, on one draft campaign of each type.        *)
(***************************************************************************)
MaxAudience == 6

\* every draw at the low or the high end of its range, independently
SimDraws ==
    {[f \in DOMAIN LowDraw |-> IF f \in H THEN HighDraw[f] ELSE LowDraw[f]] :
        H \in SUBSET (DOMAIN LowDraw \ {"aov"})}

\* len(segment_customers) of a small or of the sample population, or the
\* random fallback
SimSizes == (1..MaxAudience) \cup {DemoCustomers} \cup FallbackSizes

InitSimulate ==
    /\ campaigns \in {<<NewCampaign(1, ct, NoDate, 0)>> : ct \in CampaignTypes}
    /\ results = <<NewResult(1)>>
    /\ customers = <<>>
    /\ segments = <<[criteria |-> JsonDumps(EmptyCriteria), customer_count |-> 0]>>
    /\ bus = "uninit"
    /\ now = 1
    /\ users = {}
    /\ segment_customers = {}
    /\ session = NoUser
    /\ procs = NoRequests
    /\ last = Call("init", 0, "", 0, <<>>)

\* launch_campaign lines 412-461 for a sampled audience size and sampled
\* draws, which the record of the call keeps
launch_simulation ==
    /\ LaunchAllowed(campaigns[1])
    /\ now =< MaxTime
    /\ \E audience_size \in SimSizes : \E d \in SimDraws :
         /\ results' = [results EXCEPT ![1] =
                           Simulate(campaigns[1], @, audience_size, d)]
         /\ last' = Report("launch_campaign", 1, "campaign", d)
    /\ campaigns' = [campaigns EXCEPT ![1] = Launched(@, now)]
    /\ now' = now + 1
    /\ UNCHANGED <<customers, segments, bus, users, segment_customers, session, procs>>

NextSimulate ==
    \/ launch_simulation
    \/ conversion_funnel

SpecSimulate == InitSimulate /\ [][NextSimulate]_vars

(***************************************************************************)
(* SpecDemoRace: two workers each serving one POST /demo/initialize,       *)
(* started on an empty store.  initialize_demo_data takes no lock and      *)
(* commits after each part, so the workers interleave between the check,   *)
(* the look-up of the admin user, the commit of create_user, the commit of *)
(* generate_sample_customers, and the rest (segments, campaigns, launches).*)
(***************************************************************************)
MaxDemoTime == 6

\* the batches a worker can generate: first.last of the emails is sampled (one
\* pick for a whole batch)
DemoBatches ==
    {[i \in 1..DemoCustomers |-> [email |-> Email(name, i - 1)] @@ profile] :
        name \in {"john.smith", "jane.jones"},
        profile \in {pr \in DemoProfiles : pr.status = "lead"}}

\* the worker's call has ended with ret
DemoReturn(p, ret) ==
    /\ procs' = [procs EXCEPT ![p] = [@ EXCEPT !.pc = "idle", !.ret = ret]]
    /\ last' = Call("initialize_demo_data", 0, ret, 0, <<>>)

\* line 680: if Customer.query.first() is not None: return False
demo_check(p) ==
    /\ procs[p].pc = "idle"
    /\ procs[p].op = ""
    /\ IF AlreadyInitialized(customers)
       THEN /\ procs' = [procs EXCEPT ![p] =
                  [@ EXCEPT !.op = "initialize_demo_data", !.ret = "false"]]
            /\ last' = Call("initialize_demo_data", 0, "false", 0, <<>>)
       ELSE /\ procs' = [procs EXCEPT ![p] =
                  [@ EXCEPT !.op = "initialize_demo_data", !.pc = "checked"]]
            /\ UNCHANGED last
    /\ UNCHANGED <<customers, segments, campaigns, results, bus, now, users,
                   segment_customers, session>>

\* line 684: if not User.query.filter_by(username='admin').first()
demo_find_admin(p) ==
    /\ procs[p].pc = "checked"
    /\ procs' = [procs EXCEPT ![p].pc =
                    IF "admin" \in users THEN "user_done" ELSE "create_user"]
    /\ UNCHANGED <<customers, segments, campaigns, results, bus, now, users,
                   segment_customers, session, last>>

\* line 685: create_user commits; username is unique
demo_create_user(p) ==
    /\ procs[p].pc = "create_user"
    /\ IF "admin" \in users
       THEN DemoReturn(p, "raise") /\ UNCHANGED users
       ELSE /\ users' = users \cup {"admin"}
            /\ procs' = [procs EXCEPT ![p].pc = "user_done"]
            /\ UNCHANGED last
    /\ UNCHANGED <<customers, segments, campaigns, results, bus, now,
                   segment_customers, session>>

\* line 688: generate_sample_customers(50) commits its rows together; email
\* is unique
demo_customers(p) ==
    /\ procs[p].pc = "user_done"
    /\ \E batch \in DemoBatches :
         IF \E i \in DOMAIN batch : EmailHeld(customers, batch[i].email, 0)
         THEN DemoReturn(p, "raise") /\ UNCHANGED customers
         ELSE /\ customers' = customers \o batch
              /\ procs' = [procs EXCEPT ![p].pc = "customers_done"]
              /\ UNCHANGED last
    /\ UNCHANGED <<segments, campaigns, results, bus, now, users,
                   segment_customers, session>>

\* lines 691-757: the four segments, the three campaigns, launch and complete
\* of the first, launch of the second; return True
demo_seed(p) ==
    /\ procs[p].pc = "customers_done"
    /\ now + 2 =< MaxDemoTime
    /\ LET segs == SeededSegments(segments, customers, Len(DemoCriteria))
           s0 == Len(segments)
           c0 == Len(campaigns)
           created ==
              [k \in 1..Len(DemoCampaigns) |->
                 NewCampaign(s0 + k, DemoCampaigns[k].campaign_type,
                             NoDate, DemoCampaigns[k].budget)]
           rows == [k \in 1..Len(DemoCampaigns) |-> NewResult(c0 + k)]
           m1 == get_segment_customers(segs, customers, s0 + 1)
           m2 == get_segment_customers(segs, customers, s0 + 2)
       IN  /\ segments' = segs
           /\ \E a1 \in AudienceSizes(m1.ids), a2 \in AudienceSizes(m2.ids),
                 d \in {LowDraw, HighDraw} :
                /\ campaigns' = campaigns \o
                     <<Completed(Launched(created[1], now), now + 1),
                       Launched(created[2], now + 2),
                       created[3]>>
                /\ results' = results \o
                     <<Simulate(created[1], rows[1], a1, d),
                       Simulate(created[2], rows[2], a2, d),
                       rows[3]>>
           /\ \E b \in get_instance(bus) :
                \E t1 \in Published(b, CreatedEvent(c0 + 1, created[1])),
                   t2 \in Published(b, CreatedEvent(c0 + 2, created[2])),
                   t3 \in Published(b, CreatedEvent(c0 + 3, created[3])) :
                     /\ bus' = b
                     /\ procs' = [procs EXCEPT ![p] =
                                     [@ EXCEPT !.pc = "idle", !.ret = "true"]]
                     /\ last' = Call("initialize_demo_data", 0, "true", 0,
                                     t1 \o t2 \o t3)
    /\ now' = now + 3
    /\ UNCHANGED <<customers, users, segment_customers, session>>

NextDemoRace ==
    \/ \E p \in Workers : demo_check(p)
    \/ \E p \in Workers : demo_find_admin(p)
    \/ \E p \in Workers : demo_create_user(p)
    \/ \E p \in Workers : demo_customers(p)
    \/ \E p \in Workers : demo_seed(p)

SpecDemoRace == Init /\ [][NextDemoRace]_vars

(***************************************************************************)
(* Properties.  last' names the service call a step made, so a property of *)
(* one service function is a property of the steps whose last'.op is it.   *)
(***************************************************************************)

\* C1 (as stated): launch_campaign on a draft campaign sets its status to
\* active, sets start_date and populates its CampaignResult; on a campaign in
\* any other status it returns the campaign and changes neither the campaign
\* nor its result.
C1_LaunchFromDraft ==
    [][\A id \in DOMAIN campaigns :
         (last'.op = "launch_campaign" /\ last'.id = id) =>
            IF campaigns[id].status = "draft"
            THEN /\ last'.ret = "campaign"
                 /\ campaigns'[id].status = "active"
                 /\ campaigns'[id].start_date = now
                 /\ \E i \in ResultsOf(results', id) : results'[i].total_sent > 0
            ELSE /\ last'.ret = "campaign"
                 /\ campaigns' = campaigns
                 /\ results' = results]_vars

\* C2: pause_campaign changes the status to paused if and only if the status
\* is active; from any other status it returns the campaign and changes
\* nothing; the result row is never touched.
C2_PauseIffActive ==
    [][\A id \in DOMAIN campaigns :
         (last'.op = "pause_campaign" /\ last'.id = id) =>
            /\ last'.ret = "campaign"
            /\ results' = results
            /\ IF campaigns[id].status = "active"
               THEN campaigns' = [campaigns EXCEPT ![id].status = "paused"]
               ELSE campaigns' = campaigns]_vars

C2_Witness ==
    /\ last.op = "pause_campaign"
    /\ last.id \in DOMAIN campaigns
    /\ campaigns[last.id].status = "paused"

\* C3: resume_campaign changes the status to active if and only if the status
\* is paused; it never modifies the CampaignResult, start_date or end_date;
\* from any other status it changes nothing.
C3_ResumeIffPaused ==
    [][\A id \in DOMAIN campaigns :
         (last'.op = "resume_campaign" /\ last'.id = id) =>
            /\ last'.ret = "campaign"
            /\ results' = results
            /\ IF campaigns[id].status = "paused"
               THEN campaigns' = [campaigns EXCEPT ![id].status = "active"]
               ELSE campaigns' = campaigns]_vars

C3_Witness ==
    /\ last.op = "resume_campaign"
    /\ last.id \in DOMAIN campaigns
    /\ campaigns[last.id].status = "active"
    /\ campaigns[last.id].start_date # NoDate
    /\ \E i \in ResultsOf(results, last.id) : results[i].total_sent > 0

\* C4: complete_campaign on an existing campaign in any status sets the status
\* to completed and end_date to the current time and changes nothing else: a
\* draft that was never launched keeps its zero counters and unset start_date.
C4_CompleteFromAnyStatus ==
    [][\A id \in DOMAIN campaigns :
         (last'.op = "complete_campaign" /\ last'.id = id) =>
            /\ last'.ret = "campaign"
            /\ campaigns' = [campaigns EXCEPT ![id].status = "completed",
                                              ![id].end_date = now]
            /\ results' = results
            /\ segments' = segments
            /\ customers' = customers]_vars

C4_Witness ==
    /\ last.op = "complete_campaign"
    /\ last.id \in DOMAIN campaigns
    /\ campaigns[last.id].status = "completed"
    /\ campaigns[last.id].end_date # NoDate
    /\ campaigns[last.id].start_date = NoDate
    /\ \E i \in ResultsOf(results, last.id) : results[i].total_sent = 0

\* C5 (as stated): over every service operation, update_campaign included, a
\* campaign's status is one of draft, active, paused, completed and changes
\* only along draft->active, active->paused, paused->active, any->completed.
C5_StatusEdges ==
    [][/\ \A id \in DOMAIN campaigns' : campaigns'[id].status \in Statuses
       /\ \A id \in DOMAIN campaigns :
            campaigns'[id].status # campaigns[id].status =>
               \/ campaigns'[id].status = "completed"
               \/ <<campaigns[id].status, campaigns'[id].status>> \in
                     {<<"draft", "active">>, <<"active", "paused">>,
                      <<"paused", "active">>}]_vars

\* C6 (as stated): once a launch has populated a CampaignResult, no later
\* operation or sequence of operations, update_campaign included, writes its
\* simulated counters again.
C6_ResultWrittenOnce ==
    [][\A i \in DOMAIN results :
         results[i].total_sent > 0 => results'[i] = results[i]]_vars

\* C7: every campaign has exactly one CampaignResult and every CampaignResult
\* belongs to exactly one existing campaign; create_campaign adds the two
\* together, the campaign in status draft and every counter zero whatever
\* schedule_time is given; no operation adds a second result, removes one or
\* gives one to another campaign.
C7_OneResultPerCampaign ==
    [][/\ \A id \in DOMAIN campaigns' :
            Cardinality(ResultsOf(results', id)) = 1
       /\ \A i \in DOMAIN results' :
            results'[i].campaign_id \in DOMAIN campaigns'
       /\ DOMAIN results \subseteq DOMAIN results'
       /\ \A i \in DOMAIN results :
            results'[i].campaign_id = results[i].campaign_id
       /\ \A id \in DOMAIN campaigns' \ DOMAIN campaigns :
            /\ last'.op = "create_campaign"
            /\ campaigns'[id].status = "draft"
            /\ \A i \in ResultsOf(results', id) :
                 /\ i \notin DOMAIN results
                 /\ \A f \in DOMAIN results'[i] \ {"campaign_id"} :
                      results'[i][f] = 0]_vars

C7_Witness ==
    /\ last.op = "create_campaign"
    /\ last.id \in DOMAIN campaigns
    /\ campaigns[last.id].schedule_time # NoDate
    /\ campaigns[last.id].status = "draft"
    /\ \E i \in ResultsOf(results, last.id) : results[i].total_sent = 0

\* C8: a create_campaign that returns has made exactly one publish call, of
\* CampaignCreated for the committed row; an update_campaign that returns an
\* existing campaign has made exactly one, of CampaignUpdated carrying the
\* committed status; update_campaign on an unknown id, a call that raised and
\* every other service function have made none.
C8_OneEventPerWrite ==
    /\ (last.op = "create_campaign" /\ last.ret # "raise") =>
          /\ Len(last.published) = 1
          /\ last.published[1].data.event = "CampaignCreated"
          /\ last.published[1].data.campaign_id = last.id
          /\ last.id \in DOMAIN campaigns
          /\ last.published[1].data.type = campaigns[last.id].campaign_type
    /\ (last.op = "update_campaign" /\ last.ret \notin {"raise", "none"}) =>
          /\ Len(last.published) = 1
          /\ last.published[1].data.event = "CampaignUpdated"
          /\ last.published[1].data.campaign_id = last.id
          /\ last.id \in DOMAIN campaigns
          /\ last.published[1].data.status = campaigns[last.id].status
    /\ (last.op = "update_campaign" /\ last.id \notin DOMAIN campaigns) =>
          /\ last.ret = "none"
          /\ last.published = <<>>
    /\ last.ret = "raise" => last.published = <<>>
    /\ last.op \notin {"create_campaign", "update_campaign"} =>
          last.published = <<>>

C8_Witness ==
    /\ last.op = "update_campaign"
    /\ Len(last.published) = 1
    /\ last.published[1].outcome = "sent"
    /\ last.published[1].data.status = "scheduled"

\* C9: when the event channel is unavailable (no client, or the publish call
\* fails) create_campaign and update_campaign still return the campaign, the
\* committed write is in the store, and publish was called once only.
C9_PublishFailureSwallowed ==
    \A k \in DOMAIN last.published :
       last.published[k].outcome \in {"dropped", "failed"} =>
          /\ last.ret = "campaign"
          /\ Len(last.published) = 1
          /\ last.id \in DOMAIN campaigns
          /\ Cardinality(ResultsOf(results, last.id)) = 1
          /\ last.published[k].data.event = "CampaignCreated" =>
                campaigns[last.id].campaign_type = last.published[k].data.type
          /\ last.published[k].data.event = "CampaignUpdated" =>
                campaigns[last.id].status = last.published[k].data.status

C9_Witness ==
    /\ last.op = "update_campaign"
    /\ last.ret = "campaign"
    /\ Len(last.published) = 1
    /\ last.published[1].outcome = "failed"
    /\ campaigns[last.id].status = "scheduled"

\* C10 (as stated): a segment whose stored criteria string does not parse is
\* a match-all segment: create_segment and update_segment return the segment,
\* and the membership query and refresh_segment count every customer.
C10_UnparseableMatchesAll ==
    \A id \in DOMAIN segments :
       (last.id = id /\ ~JsonLoads(segments[id].criteria).ok) =>
          /\ last.op \in {"create_segment", "update_segment", "refresh_segment"} =>
                /\ last.ret = "segment"
                /\ segments[id].customer_count = Len(customers)
          /\ last.op = "get_segment_customers" =>
                /\ last.ret = "list"
                /\ last.n = Len(customers)

C13_RuleNeverRaises ==
    last.op = "evaluate_rule" => last.ret # "raise"

\* C14 (as stated): immediately after refresh_segment on an existing segment
\* its customer_count is the number of customers in the store for which
\* evaluate_segment_criteria is true on the segment's criteria; no other field
\* of the segment changes and no row of segment_customers is written.
C14_RefreshCountsMatches ==
    [][\A id \in DOMAIN segments :
         (last'.op = "refresh_segment" /\ last'.id = id) =>
            /\ segments' =
                 [segments EXCEPT ![id].customer_count =
                    Cardinality({i \in DOMAIN customers :
                       evaluate_segment_criteria(customers[i],
                                                 segments[id].criteria).val})]
            /\ segment_customers' = segment_customers]_vars

\* C15: customer_count is a snapshot: a step of any service function other
\* than create_segment, update_segment and refresh_segment leaves every
\* segment's customer_count as it was, so it can differ from the number of
\* customers get_segment_customers returns.
C15_CountIsSnapshot ==
    [][last'.op \notin {"create_segment", "update_segment", "refresh_segment"} =>
         /\ DOMAIN segments' = DOMAIN segments
         /\ \A id \in DOMAIN segments :
              segments'[id].customer_count = segments[id].customer_count]_vars

C15_Witness ==
    /\ last.op = "update_customer"
    /\ \E id \in DOMAIN segments :
         /\ get_segment_customers(segments, customers, id).ok
         /\ segments[id].customer_count #
               Cardinality(get_segment_customers(segments, customers, id).ids)

\* C16 (as stated): after launch_campaign on a draft campaign, total_sent is
\* the number n of customers its segment matches at launch time when n >= 1
\* (whatever the cached customer_count), and lies in 100..500 when the segment
\* matches none or is missing; in both cases delivered <= total_sent and
\* bounced = total_sent - delivered.
C16_LaunchAudience ==
    [][\A id \in DOMAIN campaigns :
         (/\ last'.op = "launch_campaign"
          /\ last'.id = id
          /\ campaigns[id].status = "draft") =>
            LET sid == campaigns[id].segment_id
                n == IF sid \in DOMAIN segments
                     THEN Cardinality({i \in DOMAIN customers :
                             evaluate_segment_criteria(customers[i],
                                                       segments[sid].criteria).val})
                     ELSE 0
            IN  \A i \in ResultsOf(results', id) :
                   /\ n >= 1 => results'[i].total_sent = n
                   /\ n = 0 => /\ results'[i].total_sent >= FallbackMin
                               /\ results'[i].total_sent =< FallbackMax
                   /\ results'[i].delivered =< results'[i].total_sent
                   /\ results'[i].bounced =
                         results'[i].total_sent - results'[i].delivered]_vars

\* C17: every derived figure of a CampaignResult (delivery_rate, open_rate,
\* click_rate, ctr, conversion_rate, roi) and every overview and funnel
\* percentage is computed without a division fault and is exactly 0 when the
\* denominator of its division is 0, whatever the counters, the all-zero
\* defaults included.
C17_ZeroDenominatorGivesZero ==
    /\ last.op = "get_campaign_stats" /\ last.ret = "metrics" =>
          LET r == results[CHOOSE i \in ResultsOf(results, last.id) : TRUE]
              m == last.value
          IN  /\ \A f \in {"delivery_rate", "open_rate", "click_rate", "ctr",
                           "conversion_rate", "roi"} : m[f].ok
              /\ r.total_sent = 0 => m.delivery_rate.val = 0
              /\ r.delivered = 0 => m.open_rate.val = 0 /\ m.ctr.val = 0
              /\ r.opens = 0 => m.click_rate.val = 0
              /\ r.clicks = 0 => m.conversion_rate.val = 0
              /\ r.total_cost = 0 => m.roi.val = 0
    /\ last.op = "get_analytics_overview" =>
          LET o == last.value
          IN  /\ \A f \in {"overall_open_rate", "overall_click_rate",
                           "overall_conversion_rate", "overall_roi"} : o[f].ok
              /\ o.total_sent = 0 => o.overall_open_rate.val = 0
              /\ o.total_opens = 0 => o.overall_click_rate.val = 0
              /\ o.total_clicks = 0 => o.overall_conversion_rate.val = 0
              /\ o.total_cost = 0 => o.overall_roi.val = 0
    /\ last.op = "get_conversion_funnel" =>
          \A f \in DOMAIN last.value :
             /\ last.value[f].ok
             /\ Total(results, "total_sent") = 0 => last.value[f].val = 0

C17_Witness ==
    /\ last.op = "get_campaign_stats"
    /\ last.ret = "metrics"
    /\ results[last.id].total_sent > 0
    /\ results[last.id].delivered = 0
    /\ last.value.open_rate.val = 0
    /\ last.value.delivery_rate.val = 0

\* C18 (as stated): when the store holds exactly one CampaignResult, the
\* overview's overall_open_rate, overall_click_rate, overall_conversion_rate
\* and overall_roi equal that result's open_rate, click_rate, conversion_rate
\* and roi.
C18_OverviewOfOneResult ==
    (last.op = "get_analytics_overview" /\ Len(results) = 1) =>
       /\ last.value.overall_open_rate = calculate_metrics(results[1]).open_rate
       /\ last.value.overall_click_rate = calculate_metrics(results[1]).click_rate
       /\ last.value.overall_conversion_rate =
             calculate_metrics(results[1]).conversion_rate
       /\ last.value.overall_roi = calculate_metrics(results[1]).roi

\* C19: get_campaign_roi_report has exactly one row for each campaign whose
\* status is active or completed, carrying that campaign's roi, and no row for
\* any other campaign, a paused one with populated results included; the rows
\* are in order of non-increasing roi.
C19_RoiReportRows ==
    last.op = "get_campaign_roi_report" =>
       LET rep == last.value
           shown == {id \in DOMAIN campaigns :
                        campaigns[id].status \in {"active", "completed"}}
       IN  /\ Len(rep) = Cardinality(shown)
           /\ {rep[k].campaign_id : k \in DOMAIN rep} = shown
           /\ \A k \in DOMAIN rep :
                \E i \in ResultsOf(results, rep[k].campaign_id) :
                   rep[k].roi = Guarded(results[i].revenue_attributed
                                           - results[i].total_cost,
                                        results[i].total_cost)
           /\ \A k \in 1..(Len(rep) - 1) : rep[k].roi.val >= rep[k + 1].roi.val

C19_Witness ==
    /\ last.op = "get_campaign_roi_report"
    /\ Len(campaigns) = 2
    /\ campaigns[1].status = "active"
    /\ campaigns[2].status = "completed"
    /\ Len(last.value) = 2
    /\ last.value[1].campaign_id = 2
    /\ last.value[1].roi.val > last.value[2].roi.val

\* C20: initialize_demo_data on a store with no customers seeds the admin
\* user, 50 customers, 4 segments and 3 campaigns, each with its result, that
\* end completed, active and draft, and returns true; on a store that holds a
\* customer it returns false and changes no user, customer, segment, campaign
\* or result, so repeated calls leave the state of the first.
C20_DemoInitOnce ==
    [][last'.op = "initialize_demo_data" =>
         IF customers = <<>>
         THEN /\ last'.ret = "true"
              /\ "admin" \in users'
              /\ Len(customers') = 50
              /\ Len(segments') = Len(segments) + 4
              /\ SubSeq(segments', 1, Len(segments)) = segments
              /\ Len(campaigns') = Len(campaigns) + 3
              /\ SubSeq(campaigns', 1, Len(campaigns)) = campaigns
              /\ campaigns'[Len(campaigns) + 1].status = "completed"
              /\ campaigns'[Len(campaigns) + 2].status = "active"
              /\ campaigns'[Len(campaigns) + 3].status = "draft"
              /\ \A id \in DOMAIN campaigns' :
                   Cardinality(ResultsOf(results', id)) = 1
         ELSE /\ last'.ret = "false"
              /\ UNCHANGED <<users, customers, segments, campaigns, results>>]_vars

C20_Witness ==
    /\ last.op = "initialize_demo_data"
    /\ last.ret = "false"
    /\ Len(customers) = 50
    /\ Len(segments) >= 4
    /\ Len(campaigns) >= 3
    /\ "admin" \in users

\* the stored state: every table
Stored == <<customers, segments, campaigns, results, users, segment_customers, procs>>

\* C21 (as stated): a request without an authenticated session to any route
\* other than login, logout and demo-initialize calls no service function,
\* changes no stored state and is answered 401; a login that fails leaves the
\* session as it was, and a logout leaves no session.
C21_NoSessionIs401 ==
    [][/\ (session = NoUser
           /\ last'.op \notin {"create_user", "login", "logout",
                               "initialize_demo_data"})
          => /\ last'.op = "login_required"
             /\ Stored' = Stored
             /\ Status(last') = 401
       /\ (last'.op = "login" /\ last'.ret # "ok") => session' = session
       /\ last'.op = "logout" => session' = NoUser]_vars

\* the call addressed a row, by its id, that its table does not hold
UnknownId(call) ==
    \/ /\ call.op \in {"get_customer_by_id", "update_customer"}
       /\ call.id \notin DOMAIN customers
    \/ /\ call.op \in {"get_segment_by_id", "update_segment", "refresh_segment",
                       "get_segment_customers"}
       /\ call.id \notin DOMAIN segments
    \/ /\ call.op \in {"get_campaign_by_id", "update_campaign", "launch_campaign",
                       "pause_campaign", "resume_campaign", "complete_campaign",
                       "get_campaign_stats"}
       /\ call.id \notin DOMAIN campaigns

\* C22 (as stated): every authenticated request that addresses a customer,
\* segment or campaign by an id that does not exist (get, update, refresh,
\* segment-customers listing, launch, pause, resume, complete, stats) is
\* answered 404 and changes no stored state.
C22_UnknownIdIs404 ==
    [][(Authenticated(session) /\ UnknownId(last'))
          => Status(last') = 404 /\ Stored' = Stored]_vars

\* C23: lifecycle calls interleaving on one campaign are never refused and the
\* commit that comes last decides the stored status.  Whenever a worker
\* returns from a lifecycle call on a stored campaign, the call did not raise;
\* it committed exactly when the row it had loaded passed the function's
\* status test, whatever the stored row had become meanwhile; and after its
\* commit every column it changed, the status among them, holds the value it
\* wrote.
C23_LastWriteWins ==
    [][\A p \in Workers :
          (procs[p].pc # "idle" /\ procs'[p].pc = "idle")
          => LET loaded == procs[p].campaign[1]
                 id == procs[p].id
                 written == procs'[p].written
             IN  /\ last'.ret = "campaign"
                 /\ (written # <<>>) = Allowed(procs[p].op, loaded)
                 /\ written # <<>> =>
                      \A c \in DOMAIN loaded :
                         written[1][c] # loaded[c]
                            => campaigns'[id][c] = written[1][c]]_vars

\* C23 witness: both workers ran the launch simulation on the one draft
\* campaign, and a pause racing a complete left it paused with end_date set.
C23_Witness ==
    /\ Len(campaigns) = 1
    /\ procs[1].sims = 1
    /\ procs[2].sims = 1
    /\ campaigns[1].status = "paused"
    /\ campaigns[1].end_date # NoDate
    /\ last.op = "pause_campaign"
    /\ procs[1].pc = "idle"
    /\ procs[2].pc = "idle"

\* no two rows of the customer table hold the same email
NoSharedEmail(custs) ==
    \A i, j \in DOMAIN custs : custs[i].email = custs[j].email => i = j

\* C24: no two customers ever share an email and no customer is ever removed.
\* POST /customers either stores one new customer, whose email no customer
\* held, and answers 201, or it answers 400 and leaves the customers as they
\* were: so it does when the email is already held (the commit is refused)
\* and when name or email is missing from the body (no service call is made).
C24_EmailUnique ==
    [][/\ NoSharedEmail(customers')
       /\ \A i \in DOMAIN customers : i \in DOMAIN customers'
       /\ last'.op = "routes.create_customer"
          => Status(last') = 400 /\ customers' = customers
       /\ last'.op = "create_customer"
          => IF last'.ret = "raise"
             THEN /\ Status(last') = 400
                  /\ customers' = customers
             ELSE /\ Status(last') = 201
                  /\ customers' = Append(customers, customers'[Len(customers')])
                  /\ ~EmailHeld(customers, customers'[Len(customers')].email, 0)]_vars

\* C24 witness: with two customers stored, a POST /customers with an email one
\* of them holds has just been refused.
C24_Witness ==
    /\ Authenticated(session)
    /\ Len(customers) = 2
    /\ last.op = "create_customer"
    /\ last.ret = "raise"

\* C25: completed is absorbing under the lifecycle calls.  A launch, pause,
\* resume or complete call made while a campaign is completed leaves that
\* campaign completed and its CampaignResult as it was; of the campaign's
\* columns only end_date can change, and only by a complete call on it.
C25_CompletedAbsorbing ==
    [][\A id \in DOMAIN campaigns :
          (campaigns[id].status = "completed" /\ last'.op \in LifecycleOps)
          => /\ campaigns'[id].status = "completed"
             /\ \A i \in ResultsOf(results, id) : results'[i] = results[i]
             /\ campaigns'[id] =
                  [campaigns[id] EXCEPT !.end_date = campaigns'[id].end_date]
             /\ campaigns'[id].end_date # campaigns[id].end_date
                => last'.op = "complete_campaign" /\ last'.id = id]_vars

\* C25 witness: a launched and then completed campaign on which launch has just
\* been called again.
C25_Witness ==
    /\ Len(campaigns) = 1
    /\ campaigns[1].status = "completed"
    /\ campaigns[1].start_date # NoDate
    /\ last.op = "launch_campaign"
    /\ last.id = 1

\* C26: in every state of create_campaign, launch, pause, resume and complete
\* called one after another, a draft campaign has a result with every counter
\* zero and neither date set; an active or paused campaign has start_date set
\* and end_date unset; end_date is set exactly when the status is completed;
\* and total_sent is non-zero only if start_date is set.
C26_DatesFollowStatus ==
    \A id \in DOMAIN campaigns :
       LET campaign == campaigns[id]
       IN  /\ campaign.status = "draft"
              => /\ \A i \in ResultsOf(results, id) : results[i] = NewResult(id)
                 /\ campaign.start_date = NoDate
                 /\ campaign.end_date = NoDate
           /\ campaign.status \in {"active", "paused"}
              => campaign.start_date # NoDate /\ campaign.end_date = NoDate
           /\ (campaign.end_date # NoDate) = (campaign.status = "completed")
           /\ \A i \in ResultsOf(results, id) :
                 results[i].total_sent # 0 => campaign.start_date # NoDate

\* C26 witness: a launched campaign, paused, whose result has been populated.
C26_Witness ==
    /\ Len(campaigns) = 1
    /\ campaigns[1].status = "paused"
    /\ results[1].total_sent > 0
    /\ last.op = "pause_campaign"

C29_SeededOnce ==
    (\A p \in Workers : procs[p].op = "initialize_demo_data" /\ procs[p].pc = "idle")
    => /\ Len(customers) = DemoCustomers
       /\ Len(segments) = Len(DemoCriteria)
       /\ Len(campaigns) = Len(DemoCampaigns)
       /\ Cardinality({p \in Workers : procs[p].ret = "true"}) = 1
       /\ \A p \in Workers : procs[p].ret # "raise"

====
